---- MODULE Spec2Model ----
(***************************************************************************)
(* Model of generate_geoip_dat.js: the name -> code normalizer, the line   *)
(* parser, the hand-rolled binary encoder and the driver loop of           *)
(* generateGeoipDat.                                                       *)
(*                                                                         *)
(* A JavaScript string is a sequence of UTF-16 code units (naturals), a    *)
(* Buffer is a sequence of bytes (0..255).  All characters used are in the *)
(* Basic Multilingual Plane, so one code unit is one character.            *)
(***************************************************************************)
EXTENDS Integers, Sequences, FiniteSets, TLC

VARIABLES
  fs,          \* the file system: path -> content, or NoFile
  inputFile,   \* generateGeoipDat's arguments
  outputFile,
  pc,          \* position in generateGeoipDat: "start", "scan", "done"
  lines,       \* the non-blank lines read from inputFile
  idx,         \* index in lines of the next line of the for loop
  entries,     \* the Map countryCode -> cidrs, in insertion order
  cur,         \* the locals of the last round of the for loop
  stderr,      \* what console.error printed
  stdout,      \* what console.log printed
  call,        \* a direct call of one function: its name and arguments
  ret          \* and what it returned

vars == <<fs, inputFile, outputFile, pc, lines, idx, entries, cur, stderr,
          stdout, call, ret>>

-----------------------------------------------------------------------------
(* Bounds of the model *)

\* most raw lines in an input file
MaxLines == 3
\* most CIDRs in a list handed to writeGeoIpEntry
MaxCidrs == 2
\* most dot-separated parts of an address string handed to writeCidr
MaxIpParts == 5

-----------------------------------------------------------------------------
(* JavaScript values *)

\* the value of a missing property; no string contains the code unit -1
undefined == <<-1>>

\* a || b on strings: undefined and "" are falsy
OrElse(a, b) == IF a = undefined \/ a = <<>> THEN b ELSE a

Min(a, b) == IF a < b THEN a ELSE b

\* String.prototype.substring(0, n)
substring(s, n) == SubSeq(s, 1, Min(n, Len(s)))

\* String.prototype.toUpperCase on one code unit (the letters a..z; the
\* other characters of the model have no upper-case form)
upperUnit(c) == IF c >= 97 /\ c <= 122 THEN c - 32 ELSE c

toUpperCase(s) == [k \in 1..Len(s) |-> upperUnit(s[k])]

\* WhiteSpace and LineTerminator code units, as stripped by trim()
WhiteSpace == {9, 10, 11, 12, 13, 32, 160, 5760, 8232, 8233, 8239, 8287,
               12288, 65279} \cup (8192..8202)

RECURSIVE trimStart(_)
trimStart(s) == IF s # <<>> /\ Head(s) \in WhiteSpace
                THEN trimStart(Tail(s)) ELSE s

RECURSIVE trimEnd(_)
trimEnd(s) == IF s # <<>> /\ s[Len(s)] \in WhiteSpace
              THEN trimEnd(SubSeq(s, 1, Len(s) - 1)) ELSE s

\* String.prototype.trim
trim(s) == trimEnd(trimStart(s))

\* String.prototype.split(d) for a one-character separator d
RECURSIVE split(_, _)
split(s, d) ==
  IF \A k \in 1..Len(s) : s[k] # d
  THEN <<s>>
  ELSE LET k == CHOOSE j \in 1..Len(s) :
                  s[j] = d /\ \A h \in 1..(j - 1) : s[h] # d
       IN  <<SubSeq(s, 1, k - 1)>> \o split(SubSeq(s, k + 1, Len(s)), d)

\* Array.prototype.join('') of an array of strings
RECURSIVE joinAll(_)
joinAll(a) == IF a = <<>> THEN <<>> ELSE Head(a) \o joinAll(Tail(a))

-----------------------------------------------------------------------------
(* Code normalizer *)

\* the rows of the object literal pinyinMap, in source order
pinyinRows ==
  << 
     <<<<30005, 20449>>, <<68, 88>>>>,   \* '电信': 'DX'
     <<<<32852, 36890>>, <<76, 84>>>>,   \* '联通': 'LT'
     <<<<31227, 21160>>, <<89, 68>>>>,   \* '移动': 'YD'
     <<<<38081, 36890>>, <<84, 84>>>>,   \* '铁通': 'TT'
     <<<<21326, 25968>>, <<72, 83>>>>,   \* '华数': 'HS'
     <<<<26410, 30693>>, <<85, 78>>>>,   \* '未知': 'UN'
     <<<<21271, 20140>>, <<66, 74>>>>,   \* '北京': 'BJ'
     <<<<19978, 28023>>, <<83, 72>>>>,   \* '上海': 'SH'
     <<<<22825, 27941>>, <<84, 74>>>>,   \* '天津': 'TJ'
     <<<<37325, 24198>>, <<67, 81>>>>,   \* '重庆': 'CQ'
     <<<<24191, 19996>>, <<71, 68>>>>,   \* '广东': 'GD'
     <<<<27993, 27743>>, <<90, 74>>>>,   \* '浙江': 'ZJ'
     <<<<27743, 33487>>, <<74, 83>>>>,   \* '江苏': 'JS'
     <<<<23665, 19996>>, <<83, 68>>>>,   \* '山东': 'SD'
     <<<<31119, 24314>>, <<70, 74>>>>,   \* '福建': 'FJ'
     <<<<23433, 24509>>, <<65, 72>>>>,   \* '安徽': 'AH'
     <<<<27827, 21335>>, <<72, 65>>>>,   \* '河南': 'HA'
     <<<<28246, 21271>>, <<72, 66>>>>,   \* '湖北': 'HB'
     <<<<28246, 21335>>, <<72, 78>>>>,   \* '湖南': 'HN'
     <<<<27743, 35199>>, <<74, 88>>>>,   \* '江西': 'JX'
     <<<<22235, 24029>>, <<83, 67>>>>,   \* '四川': 'SC'
     <<<<38485, 35199>>, <<83, 78>>>>,   \* '陕西': 'SN'
     <<<<23665, 35199>>, <<83, 88>>>>,   \* '山西': 'SX'
     <<<<36797, 23425>>, <<76, 78>>>>,   \* '辽宁': 'LN'
     <<<<21513, 26519>>, <<74, 76>>>>,   \* '吉林': 'JL'
     <<<<40657, 40857, 27743>>, <<72, 76>>>>,   \* '黑龙江': 'HL'
     <<<<27827, 21271>>, <<72, 69>>>>,   \* '河北': 'HE'
     <<<<21488, 28286>>, <<84, 87>>>>,   \* '台湾': 'TW'
     <<<<28023, 21335>>, <<72, 73>>>>,   \* '海南': 'HI'
     <<<<29976, 32899>>, <<71, 83>>>>,   \* '甘肃': 'GS'
     <<<<23425, 22799>>, <<78, 88>>>>,   \* '宁夏': 'NX'
     <<<<38738, 28023>>, <<81, 72>>>>,   \* '青海': 'QH'
     <<<<26032, 30086>>, <<88, 74>>>>,   \* '新疆': 'XJ'
     <<<<35199, 34255>>, <<88, 90>>>>,   \* '西藏': 'XZ'
     <<<<20869, 33945, 21476>>, <<78, 77>>>>,   \* '内蒙古': 'NM'
     <<<<24191, 35199>>, <<71, 88>>>>,   \* '广西': 'GX'
     <<<<36149, 24030>>, <<71, 90>>>>,   \* '贵州': 'GZ'
     <<<<20113, 21335>>, <<89, 78>>>>,   \* '云南': 'YN'
     <<<<39321, 28207>>, <<72, 75>>>>,   \* '香港': 'HK'
     <<<<28595, 38376>>, <<77, 79>>>>    \* '澳门': 'MO'
  >>

\* pinyinMap as a function from its own keys to their values
pinyinMap ==
  [k \in {pinyinRows[j][1] : j \in DOMAIN pinyinRows} |->
     pinyinRows[CHOOSE j \in DOMAIN pinyinRows : pinyinRows[j][1] = k][2]]

\* pinyinMap[key]: undefined for a key the object does not have.  (Names of
\* Object.prototype members such as "constructor" are outside the inputs of
\* the model.)
pinyinMapGet(key) == IF key \in DOMAIN pinyinMap THEN pinyinMap[key]
                     ELSE undefined

\* null is modelled as undefined: getStandardCountryCode is only compared
\* against null
getStandardCountryCode(countryName) ==
  IF countryName = <<20013, 22269>> THEN <<67, 78>> ELSE undefined

getStandardRegionCode(regionName) ==
  OrElse(pinyinMapGet(regionName), toUpperCase(substring(regionName, 3)))

getIspCode(ispName) ==
  IF Len(ispName) >= 2
  THEN OrElse(pinyinMapGet(substring(ispName, 2)), <<85, 78>>)
  ELSE IF Len(ispName) = 1
       THEN OrElse(pinyinMapGet(ispName), <<85, 78>>)
       ELSE <<85, 78>>

\* The dictionary of the npm package pinyin (STYLE_NORMAL, no heteronyms),
\* restricted to the Han characters the model uses; any other character is
\* passed through untouched.
pinyinDict ==
  << <<21271, <<98, 101, 105>>>>,    \* 北
     <<20140, <<106, 105, 110, 103>>>>,   \* 京
     <<24191, <<103, 117, 97, 110, 103>>>>,  \* 广
     <<19996, <<100, 111, 110, 103>>>>,   \* 东
     <<24030, <<122, 104, 111, 117>>>>,   \* 州
     <<28145, <<115, 104, 101, 110>>>>,   \* 深
     <<22323, <<122, 104, 101, 110>>>>,   \* 圳
     <<26410, <<119, 101, 105>>>>,    \* 未
     <<30693, <<122, 104, 105>>>> >>  \* 知

pinyin(cityName) ==
  [k \in 1..Len(cityName) |->
     IF \E j \in DOMAIN pinyinDict : pinyinDict[j][1] = cityName[k]
     THEN <<pinyinDict[CHOOSE j \in DOMAIN pinyinDict :
                         pinyinDict[j][1] = cityName[k]][2]>>
     ELSE <<<<cityName[k]>>>>]

\* pinyinArray.flat().join('')
getCityPinyin(cityName) == joinAll(joinAll(pinyin(cityName)))

\* faulty variant: the full format is pushed whenever there is a city name, without
\* comparing it to the region name
createCountryCodesAlwaysFull(countryName, regionName, cityName, ipVersion, ispDomain) ==
  IF getStandardCountryCode(countryName) = undefined
  THEN <<>>
  ELSE LET region == getStandardRegionCode(regionName)
           ispCode == getIspCode(ispDomain)
           simplifiedFormat == ipVersion \o <<45>> \o ispCode \o <<45>> \o region
           fullFormat == ipVersion \o <<45>> \o ispCode \o <<45>> \o region
                           \o <<45>> \o getCityPinyin(cityName)
       IN  IF cityName # <<>>
           THEN <<simplifiedFormat, fullFormat>>
           ELSE <<simplifiedFormat>>

createCountryCodes(countryName, regionName, cityName, ipVersion, ispDomain) ==
  IF getStandardCountryCode(countryName) = undefined
  THEN <<>>
  ELSE LET region == getStandardRegionCode(regionName)
           ispCode == getIspCode(ispDomain)
           simplifiedFormat == ipVersion \o <<45>> \o ispCode \o <<45>> \o region
           fullFormat == ipVersion \o <<45>> \o ispCode \o <<45>> \o region
                           \o <<45>> \o getCityPinyin(cityName)
       IN  IF cityName # <<>> /\ cityName # regionName
           THEN <<simplifiedFormat, fullFormat>>
           ELSE <<simplifiedFormat>>

-----------------------------------------------------------------------------
(* Record parser *)

\* parts[k] of an array that may be shorter than k
at(parts, k) == IF k <= Len(parts) THEN parts[k] ELSE undefined

\* faulty variant: the length test accepts 3 parts (parts.length < 3)
parseIpdbEntryMin3(dataEntry) ==
  LET parts == split(dataEntry, 9)
  IN  IF Len(parts) < 3
      THEN <<>>
      ELSE << [country_name |-> OrElse(parts[1], <<26410, 30693>>),
               region_name  |-> OrElse(parts[2], <<26410, 30693>>),
               city_name    |-> OrElse(parts[3], parts[2]),
               isp_domain   |-> OrElse(at(parts, 4), <<26410, 30693>>)] >>

\* faulty variant: city_name and its fallback are exchanged (parts[1] || parts[2])
parseIpdbEntrySwapped(dataEntry) ==
  LET parts == split(dataEntry, 9)
  IN  IF Len(parts) < 4
      THEN <<>>
      ELSE << [country_name |-> OrElse(parts[1], <<26410, 30693>>),
               region_name  |-> OrElse(parts[2], <<26410, 30693>>),
               city_name    |-> OrElse(parts[2], parts[3]),
               isp_domain   |-> OrElse(parts[4], <<26410, 30693>>)] >>

\* null (fewer than 4 parts) is modelled as the empty record sequence <<>>
parseIpdbEntry(dataEntry) ==
  LET parts == split(dataEntry, 9)
  IN  IF Len(parts) < 4
      THEN <<>>
      ELSE << [country_name |-> OrElse(parts[1], <<26410, 30693>>),
               region_name  |-> OrElse(parts[2], <<26410, 30693>>),
               city_name    |-> OrElse(parts[3], parts[2]),
               isp_domain   |-> OrElse(parts[4], <<26410, 30693>>)] >>

-----------------------------------------------------------------------------
(* Binary encoder *)

\* Buffer.from(str, 'utf-8') for one code unit of the BMP that is not a
\* surrogate
utf8Unit(c) ==
  IF c < 128 THEN <<c>>
  ELSE IF c < 2048 THEN <<192 + (c \div 64), 128 + (c % 64)>>
  ELSE <<224 + (c \div 4096), 128 + ((c \div 64) % 64), 128 + (c % 64)>>

RECURSIVE utf8(_)
utf8(str) == IF str = <<>> THEN <<>> ELSE utf8Unit(Head(str)) \o utf8(Tail(str))

\* faulty variant: the bytes in big-endian order (writeUInt32BE)
writeUInt32BE(v) ==
  <<(v \div 16777216) % 256, (v \div 65536) % 256, (v \div 256) % 256, v % 256>>

\* buf.writeUInt32LE(v, 0) on a 4-byte buffer, 0 <= v < 2^32
writeUInt32LE(v) ==
  <<v % 256, (v \div 256) % 256, (v \div 65536) % 256, (v \div 16777216) % 256>>

writeString(str) ==
  LET strBuffer == utf8(str)
  IN  writeUInt32LE(Len(strBuffer)) \o strBuffer

Digit(c) == c >= 48 /\ c <= 57
HexDigit(c) == Digit(c) \/ (c >= 97 /\ c <= 102) \/ (c >= 65 /\ c <= 70)
HexVal(c) == IF Digit(c) THEN c - 48
             ELSE IF c >= 97 THEN c - 87 ELSE c - 55

\* the value of the longest prefix of s made of digits of the radix;
\* n counts how many digits were consumed
RECURSIVE digitsPrefix(_, _, _, _)
digitsPrefix(s, radix, acc, n) ==
  IF s # <<>> /\ (IF radix = 16 THEN HexDigit(Head(s)) ELSE Digit(Head(s)))
  THEN digitsPrefix(Tail(s), radix, acc * radix + HexVal(Head(s)), n + 1)
  ELSE [value |-> acc, count |-> n]

\* parseInt(string) with no radix argument: leading white space is skipped,
\* a sign is taken, 0x/0X selects radix 16, the longest digit prefix is
\* read, and NaN is the result when no digit was read
parseInt(str) ==
  LET s0   == trimStart(str)
      neg  == s0 # <<>> /\ Head(s0) = 45
      s1   == IF s0 # <<>> /\ Head(s0) \in {43, 45} THEN Tail(s0) ELSE s0
      hex  == Len(s1) >= 2 /\ s1[1] = 48 /\ s1[2] \in {120, 88}
      s2   == IF hex THEN Tail(Tail(s1)) ELSE s1
      d    == digitsPrefix(s2, IF hex THEN 16 ELSE 10, 0, 0)
  IN  IF d.count = 0 THEN [isNaN |-> TRUE, value |-> 0]
      ELSE [isNaN |-> FALSE, value |-> IF neg THEN 0 - d.value ELSE d.value]

\* storing a number into an element of a Buffer (ToUint8): NaN becomes 0,
\* any other integer is taken modulo 256
toUint8(num) == IF num.isNaN THEN 0 ELSE num.value % 256

writeCidr(ip, prefixLen) ==
  LET ipParts  == split(ip, 46)
      ipBuffer == IF Len(ipParts) = 4
                  THEN <<toUint8(parseInt(ipParts[1])),
                         toUint8(parseInt(ipParts[2])),
                         toUint8(parseInt(ipParts[3])),
                         toUint8(parseInt(ipParts[4]))>>
                  ELSE <<0, 0, 0, 0>>
  IN  ipBuffer \o writeUInt32LE(prefixLen)

\* buf.writeUInt8((fieldNumber << 3) | wireType) on a 1-byte buffer; the wire
\* types used are below 8, so the bitwise or is a sum
tagByte(fieldNumber, wireType) == <<fieldNumber * 8 + wireType>>

\* one round of the loop over cidrs: tag2, the sub-message length, the CIDR
cidrField(cidr) ==
  LET cidrBuffer == writeCidr(cidr[1], cidr[2])
  IN  tagByte(2, 2) \o writeUInt32LE(Len(cidrBuffer)) \o cidrBuffer

RECURSIVE cidrFields(_)
cidrFields(cidrs) ==
  IF cidrs = <<>> THEN <<>>
  ELSE cidrField(Head(cidrs)) \o cidrFields(Tail(cidrs))

writeGeoIpEntry(countryCode, cidrs) ==
  tagByte(1, 2) \o writeString(countryCode) \o cidrFields(cidrs)
    \o tagByte(3, 0) \o <<0>>

-----------------------------------------------------------------------------
(* Driver: generateGeoipDat *)

\* what fs holds for a path with no file
NoFile == undefined

\* fs.existsSync
existsSync(path) == fs[path] # NoFile

\* path.extname: from the last '.' of the last path segment to its end; empty
\* when there is none or when it is the first character of the segment
extname(path) ==
  LET slashes  == {k \in 1..Len(path) : path[k] = 47}
      start    == IF slashes = {} THEN 1
                  ELSE 1 + CHOOSE k \in slashes : \A h \in slashes : h <= k
      basename == SubSeq(path, start, Len(path))
      dots     == {k \in 1..Len(basename) : basename[k] = 46}
      last     == CHOOSE k \in dots : \A h \in dots : h <= k
  IN  IF dots = {} \/ last = 1 THEN <<>>
      ELSE SubSeq(basename, last, Len(basename))

\* data.split('\n').filter(line => line.trim() !== ''); both branches of the
\* extension test read the file the same way
readLines(data) == SelectSeq(split(data, 10), LAMBDA line : trim(line) # <<>>)

\* const exampleCidrs = [["192.168.1.0", 24]]
exampleCidrs == << <<<<49, 57, 50, 46, 49, 54, 56, 46, 49, 46, 48>>, 24>> >>

\* faulty variant: the country filter is gone and the codes are made for "中国"
\* whatever the country field holds
loopBodyNoCountryFilter(line, file) ==
  LET isIpdb     == extname(file) = <<46, 105, 112, 100, 98>>
      parsedData == parseIpdbEntry(trim(line))
      parts      == split(trim(line), 124)
      country    == IF isIpdb THEN parsedData[1].country_name ELSE parts[1]
      region     == IF isIpdb THEN parsedData[1].region_name ELSE parts[2]
      city       == IF isIpdb THEN parsedData[1].city_name
                    ELSE OrElse(parts[3], region)
      ispDomain  == IF isIpdb THEN parsedData[1].isp_domain
                    ELSE OrElse(parts[4], <<26410, 30693>>)
      codes      == createCountryCodes(<<20013, 22269>>, region, city, <<52>>, ispDomain)
  IN  IF (IF isIpdb THEN parsedData = <<>> ELSE Len(parts) < 4)
      THEN [country |-> undefined, region |-> undefined, city |-> undefined,
            ispDomain |-> undefined, countryCodes |-> <<>>,
            outcome |-> "malformed"]
      ELSE [country |-> country, region |-> region, city |-> city,
            ispDomain |-> ispDomain, countryCodes |-> codes,
            outcome |-> IF Len(codes) = 0 THEN "empty" ELSE "added"]

\* one round of the for loop up to the inner loop: the locals it leaves and
\* how the round ended ("malformed", "foreign" and "empty" are the three
\* continue statements)
loopBody(line, file) ==
  LET isIpdb     == extname(file) = <<46, 105, 112, 100, 98>>
      parsedData == parseIpdbEntry(trim(line))
      parts      == split(trim(line), 124)
      country    == IF isIpdb THEN parsedData[1].country_name ELSE parts[1]
      region     == IF isIpdb THEN parsedData[1].region_name ELSE parts[2]
      city       == IF isIpdb THEN parsedData[1].city_name
                    ELSE OrElse(parts[3], region)
      ispDomain  == IF isIpdb THEN parsedData[1].isp_domain
                    ELSE OrElse(parts[4], <<26410, 30693>>)
      codes      == createCountryCodes(country, region, city, <<52>>, ispDomain)
  IN  IF (IF isIpdb THEN parsedData = <<>> ELSE Len(parts) < 4)
      THEN [country |-> undefined, region |-> undefined, city |-> undefined,
            ispDomain |-> undefined, countryCodes |-> <<>>,
            outcome |-> "malformed"]
      ELSE IF country # <<20013, 22269>>
      THEN [country |-> country, region |-> region, city |-> city,
            ispDomain |-> ispDomain, countryCodes |-> <<>>,
            outcome |-> "foreign"]
      ELSE [country |-> country, region |-> region, city |-> city,
            ispDomain |-> ispDomain, countryCodes |-> codes,
            outcome |-> IF Len(codes) = 0 THEN "empty" ELSE "added"]

\* entries.has(countryCode)
has(map, countryCode) == \E k \in DOMAIN map : map[k].countryCode = countryCode

\* faulty variant: the list of a key is set to the example CIDRs, not extended
addCodeReplace(map, countryCode) ==
  LET m1 == IF has(map, countryCode) THEN map
            ELSE Append(map, [countryCode |-> countryCode, cidrs |-> <<>>])
  IN  [k \in DOMAIN m1 |->
         IF m1[k].countryCode = countryCode
         THEN [m1[k] EXCEPT !.cidrs = exampleCidrs]
         ELSE m1[k]]

\* one round of the inner loop: set the key to [] if it is new, then push
\* the example CIDRs onto its list
addCode(map, countryCode) ==
  LET m1 == IF has(map, countryCode) THEN map
            ELSE Append(map, [countryCode |-> countryCode, cidrs |-> <<>>])
  IN  [k \in DOMAIN m1 |->
         IF m1[k].countryCode = countryCode
         THEN [m1[k] EXCEPT !.cidrs = @ \o exampleCidrs]
         ELSE m1[k]]

RECURSIVE addCodes(_, _)
addCodes(map, countryCodes) ==
  IF countryCodes = <<>> THEN map
  ELSE addCodes(addCode(map, Head(countryCodes)), Tail(countryCodes))

RECURSIVE entryBuffers(_)
entryBuffers(map) ==
  IF map = <<>> THEN <<>>
  ELSE writeGeoIpEntry(Head(map).countryCode, Head(map).cidrs)
         \o entryBuffers(Tail(map))

\* faulty variant: the header counts the CIDRs of all entries instead of the entries
RECURSIVE cidrTotal(_)
cidrTotal(map) ==
  IF map = <<>> THEN 0 ELSE Len(Head(map).cidrs) + cidrTotal(Tail(map))

fileBufferCountsCidrs(map) ==
  <<cidrTotal(map) % 256, (cidrTotal(map) \div 256) % 256, 0, 0>>
    \o entryBuffers(map)

\* the buffer handed to fs.writeFileSync
fileBuffer(map) == writeUInt32LE(Len(map)) \o entryBuffers(map)

(* Inputs of the driver *)

InputFiles == {<<113, 113, 119, 114, 121, 46, 105, 112, 100, 98>>, <<99, 110, 46, 116, 120, 116>>}

OutputFiles == {<<103, 101, 111, 105, 112, 46, 100, 97, 116>>}

\* what the output path may hold before the run
OldOutputs == {NoFile, <<1, 2, 3>>}

\* one record written with a field delimiter
joinFields(rec, d) == rec[1] \o <<d>> \o rec[2] \o <<d>> \o rec[3] \o <<d>> \o rec[4]

\* records of the input: city = region, city # region, no city, no city and
\* no region, no ISP, an unmapped region with an ISP named after a region,
\* a foreign country
SampleRecords ==
  { <<<<20013, 22269>>, <<21271, 20140>>, <<21271, 20140>>, <<30005, 20449>>>>,
    <<<<20013, 22269>>, <<24191, 19996>>, <<28145, 22323>>, <<32852, 36890>>>>,
    <<<<20013, 22269>>, <<24191, 19996>>, <<>>, <<32852, 36890>>>>,
    <<<<20013, 22269>>, <<>>, <<>>, <<30005, 20449>>>>,
    <<<<20013, 22269>>, <<21271, 20140>>, <<21271, 20140>>, <<>>>>,
    <<<<20013, 22269>>, <<109, 97, 114, 115>>, <<28145, 22323>>, <<21271, 20140, 23485, 24102>>>>,
    <<<<32654, 22269>>, <<21271, 20140>>, <<21271, 20140>>, <<30005, 20449>>>> }

\* the field delimiter of a file's format: tab for .ipdb, '|' otherwise
Delimiter(file) == IF extname(file) = <<46, 105, 112, 100, 98>> THEN 9 ELSE 124

\* the raw lines of an input file: every sample record in the format of the
\* file, one record in the other format, and a line of white space
RawLines(file) ==
  {joinFields(r, Delimiter(file)) : r \in SampleRecords}
    \cup {joinFields(<<<<20013, 22269>>, <<21271, 20140>>, <<21271, 20140>>, <<30005, 20449>>>>,
                     IF Delimiter(file) = 9 THEN 124 ELSE 9)}
    \cup {<<32, 32>>}

RECURSIVE joinLines(_)
joinLines(ls) ==
  IF ls = <<>> THEN <<>>
  ELSE IF Len(ls) = 1 THEN ls[1]
  ELSE ls[1] \o <<10>> \o joinLines(Tail(ls))

FileContents(file) ==
  {joinLines(ls) : ls \in UNION {[1..n -> RawLines(file)] : n \in 0..MaxLines}}

noLocals == [country |-> undefined, region |-> undefined, city |-> undefined,
             ispDomain |-> undefined, countryCodes |-> <<>>,
             outcome |-> "none"]

noCall == [fn |-> "none", args |-> <<>>]

Init ==
  /\ inputFile \in InputFiles
  /\ outputFile \in OutputFiles
  /\ \E data \in FileContents(inputFile) \cup {NoFile}, old \in OldOutputs :
       fs = [p \in InputFiles \cup OutputFiles |->
               IF p = inputFile THEN data
               ELSE IF p = outputFile THEN old ELSE NoFile]
  /\ pc = "start"
  /\ lines = <<>>
  /\ idx = 1
  /\ entries = <<>>
  /\ cur = noLocals
  /\ stderr = <<>>
  /\ stdout = <<>>
  /\ call = noCall
  /\ ret = <<>>

\* faulty variant: the output file is opened for writing before the input is checked
InputMissingTruncates ==
  /\ pc = "start"
  /\ fs[inputFile] = NoFile
  /\ fs' = [fs EXCEPT ![outputFile] = <<>>]
  /\ stderr' = Append(stderr, [msg |-> "Error: Input file does not exist.",
                               file |-> inputFile])
  /\ pc' = "done"
  /\ UNCHANGED <<inputFile, outputFile, lines, idx, entries, cur, stdout,
                 call, ret>>

\* lines 200-203: the input file does not exist
InputMissing ==
  /\ pc = "start"
  /\ ~existsSync(inputFile)
  /\ stderr' = Append(stderr, [msg |-> "Error: Input file does not exist.",
                               file |-> inputFile])
  /\ pc' = "done"
  /\ UNCHANGED <<fs, inputFile, outputFile, lines, idx, entries, cur, stdout,
                 call, ret>>

\* lines 206-218: new Map(), read and split the file
ReadInput ==
  /\ pc = "start"
  /\ existsSync(inputFile)
  /\ entries' = <<>>
  /\ lines' = readLines(fs[inputFile])
  /\ idx' = 1
  /\ pc' = "scan"
  /\ UNCHANGED <<fs, inputFile, outputFile, cur, stderr, stdout, call, ret>>

\* lines 221-272: one round of the for loop
ProcessLine ==
  /\ pc = "scan"
  /\ idx <= Len(lines)
  /\ cur' = loopBody(lines[idx], inputFile)
  /\ entries' = IF cur'.outcome = "added"
                THEN addCodes(entries, cur'.countryCodes) ELSE entries
  /\ idx' = idx + 1
  /\ UNCHANGED <<fs, inputFile, outputFile, pc, lines, stderr, stdout, call,
                 ret>>

\* lines 274-290: serialize the Map and write the output file
WriteOutput ==
  /\ pc = "scan"
  /\ idx > Len(lines)
  /\ fs' = [fs EXCEPT ![outputFile] = fileBuffer(entries)]
  /\ stdout' = Append(stdout, [msg |-> "Generated", file |-> outputFile,
                               size |-> Len(entries)])
  /\ pc' = "done"
  /\ UNCHANGED <<inputFile, outputFile, lines, idx, entries, cur, stderr,
                 call, ret>>

Next == InputMissing \/ ReadInput \/ ProcessLine \/ WriteOutput

Spec == Init /\ [][Next]_vars

-----------------------------------------------------------------------------
(* Direct calls of the pure functions *)

\* a country code of 90 Han characters: 270 bytes, more than one length byte
\* counts
LongCode == [k \in 1..90 |-> 28779]

CodeStrings == {<<>>, <<52, 45, 68, 88, 45, 66, 74>>, <<52, 45, 76, 84, 45, 71, 68, 45, 115, 104, 101, 110, 122, 104, 101, 110>>, <<52, 45, 68, 88, 45, 28779, 26143>>, <<233>>,
                <<52, 45, 85, 78, 45>>, LongCode, <<67, 78>>}

CidrRanges == { <<<<49, 57, 50, 46, 49, 54, 56, 46, 49, 46, 48>>, 24>>, <<<<49, 48, 46, 48, 46, 48, 46, 50, 53, 53>>, 16909060>>,
                <<<<49, 46, 50, 46, 51>>, 8>>, <<<<50, 53, 53, 46, 50, 53, 53, 46, 50, 53, 53, 46, 50, 53, 53>>, 2147483647>> }

CidrLists == UNION {[1..n -> CidrRanges] : n \in 0..MaxCidrs}

IpParts == {<<49, 57, 50>>, <<55>>, <<50, 53, 54>>, <<120>>, <<45, 49>>}

RECURSIVE joinDots(_)
joinDots(ps) ==
  IF Len(ps) = 1 THEN ps[1] ELSE ps[1] \o <<46>> \o joinDots(Tail(ps))

IpStrings ==
  {joinDots(ps) : ps \in UNION {[1..n -> IpParts] : n \in 1..MaxIpParts}}
    \cup {<<>>, <<49, 57, 50, 46, 49, 54, 56, 46, 49, 46, 48>>, <<49, 46, 50, 46, 51, 97, 46, 52>>, <<48, 120, 49, 48, 46, 49, 46, 49, 46, 49>>, <<48, 49, 46, 48, 50, 46, 48, 51, 46, 48, 52>>}

PrefixLens == {0, 24, 16909060}

IspNames == {<<>>, <<88>>, <<30005>>, <<30005, 20449>>, <<30005, 20449, 36890>>, <<32852, 36890>>, <<31227, 21160>>, <<38081, 36890>>,
             <<21326, 25968>>, <<26410, 30693>>, <<21271, 20140>>, <<21271, 20140, 23485, 24102>>, <<24191, 19996, 30005, 20449>>, <<25945, 32946, 32593>>,
             <<40657, 40857, 27743>>, <<97, 98>>, <<85, 78>>}

Records ==
  {<<20013, 22269>>, <<32654, 22269>>, <<>>} \X {<<21271, 20140>>, <<24191, 19996>>, <<109, 97, 114, 115>>, <<>>}
    \X {<<21271, 20140>>, <<28145, 22323>>, <<>>, <<97, 124, 98>>, <<32>>} \X {<<30005, 20449>>, <<21271, 20140, 23485, 24102>>, <<>>, <<32>>}

InitUnit ==
  /\ inputFile = <<113, 113, 119, 114, 121, 46, 105, 112, 100, 98>>
  /\ outputFile = <<103, 101, 111, 105, 112, 46, 100, 97, 116>>
  /\ fs = [p \in InputFiles \cup OutputFiles |-> NoFile]
  /\ pc = "idle"
  /\ lines = <<>>
  /\ idx = 1
  /\ entries = <<>>
  /\ cur = noLocals
  /\ stderr = <<>>
  /\ stdout = <<>>
  /\ call = noCall
  /\ ret = <<>>

driverVars == <<fs, inputFile, outputFile, pc, lines, idx, entries, cur,
                stderr, stdout>>

CallWriteGeoIpEntry ==
  /\ call = noCall
  /\ \E countryCode \in CodeStrings, cidrs \in CidrLists :
       /\ call' = [fn |-> "writeGeoIpEntry", args |-> <<countryCode, cidrs>>]
       /\ ret' = writeGeoIpEntry(countryCode, cidrs)
  /\ UNCHANGED driverVars

CallWriteCidr ==
  /\ call = noCall
  /\ \E ip \in IpStrings, prefixLen \in PrefixLens :
       /\ call' = [fn |-> "writeCidr", args |-> <<ip, prefixLen>>]
       /\ ret' = writeCidr(ip, prefixLen)
  /\ UNCHANGED driverVars

CallGetIspCode ==
  /\ call = noCall
  /\ \E ispName \in IspNames :
       /\ call' = [fn |-> "getIspCode", args |-> <<ispName>>]
       /\ ret' = getIspCode(ispName)
  /\ UNCHANGED driverVars

\* what one round of the for loop contributes to entries
contribution(line, file) ==
  LET b == loopBody(line, file)
  IN  [skipped |-> b.outcome # "added",
       codes   |-> IF b.outcome = "added" THEN b.countryCodes ELSE <<>>]

\* the same record as a tab-delimited line of a .ipdb file and as a
\* pipe-delimited line of another file
CallBothFormats ==
  /\ call = noCall
  /\ \E rec \in Records :
       /\ call' = [fn |-> "bothFormats", args |-> rec]
       /\ ret' = <<contribution(joinFields(rec, 9), <<113, 113, 119, 114, 121, 46, 105, 112, 100, 98>>),
                   contribution(joinFields(rec, 124), <<99, 110, 46, 116, 120, 116>>)>>
  /\ UNCHANGED driverVars

NextUnit ==
  CallWriteGeoIpEntry \/ CallWriteCidr \/ CallGetIspCode \/ CallBothFormats

SpecUnit == InitUnit /\ [][NextUnit]_vars

-----------------------------------------------------------------------------
(* Vocabulary of the properties *)

IsBytes(b) == \A k \in DOMAIN b : b[k] \in 0..255

\* the number a 4-byte little-endian field stands for
LEValue(b) == b[1] + 256 * b[2] + 65536 * b[3] + 16777216 * b[4]

IsLE32(b, v) == Len(b) = 4 /\ IsBytes(b) /\ LEValue(b) = v

RECURSIVE DecValue(_)
DecValue(s) == IF s = <<>> THEN 0
               ELSE 10 * DecValue(SubSeq(s, 1, Len(s) - 1)) + (s[Len(s)] - 48)

\* a decimal number of 1 to 3 digits, at most 255
IsOctet(s) == /\ Len(s) \in 1..3
              /\ \A k \in 1..Len(s) : s[k] \in 48..57
              /\ DecValue(s) <= 255

\* a well-formed dotted-decimal IPv4 address
WellFormedIPv4(ip) ==
  LET ps == split(ip, 46)
  IN  Len(ps) = 4 /\ \A k \in 1..4 : IsOctet(ps[k])

Octets(ip) == [k \in 1..4 |-> DecValue(split(ip, 46)[k])]

\* the fields of a line of the file
Fields(line, file) == split(trim(line), Delimiter(file))

Malformed(line, file) == Len(Fields(line, file)) < 4

\* the lines whose for-loop round is over
Processed == SubSeq(lines, 1, idx - 1)

RECURSIVE Flatten(_)
Flatten(ss) == IF ss = <<>> THEN <<>> ELSE Head(ss) \o Flatten(Tail(ss))

\* all the codes the lines ls generate, in the order of generation
Generated(ls, file) ==
  Flatten([k \in 1..Len(ls) |-> loopBody(ls[k], file).countryCodes])

Occurrences(x, s) == Cardinality({k \in 1..Len(s) : s[k] = x})

\* the elements of s, each at the place of its first occurrence
FirstSeen(s) ==
  LET firsts == {k \in 1..Len(s) : \A h \in 1..(k - 1) : s[h] # s[k]}
      nth[n \in 0..Len(s)] ==
        IF n = 0 THEN 0
        ELSE CHOOSE k \in firsts :
               Cardinality({h \in firsts : h < k}) = n - 1
  IN  [n \in 1..Cardinality(firsts) |-> s[nth[n]]]

\* k copies of the placeholder CIDR
Placeholders(k) == [j \in 1..k |-> <<<<49, 57, 50, 46, 49, 54, 56, 46, 49, 46, 48>>, 24>>]

\* the table the for loop builds from the lines ls
RECURSIVE TableOf(_, _)
TableOf(ls, file) ==
  IF ls = <<>> THEN <<>>
  ELSE LET b == loopBody(ls[Len(ls)], file)
           t == TableOf(SubSeq(ls, 1, Len(ls) - 1), file)
       IN  IF b.outcome = "added" THEN addCodes(t, b.countryCodes) ELSE t

Succeeded == pc = "done" /\ stdout # <<>>

-----------------------------------------------------------------------------
(* Properties *)

\* C1: writeGeoIpEntry(c, L) is byte 0x0A, the 4-byte little-endian UTF-8
\* byte length of c, the UTF-8 bytes of c, then for each CIDR of L in order
\* byte 0x12, the little-endian value 8, 4 address bytes (the octets of a
\* well-formed address) and the little-endian prefix length, then 0x18 0x00;
\* its length is 7 + byteLength(c) + 13 * |L|.
C1_EntryLayout ==
  call.fn = "writeGeoIpEntry" =>
    LET c == call.args[1]
        L == call.args[2]
        n == Len(utf8(c))
    IN  /\ IsBytes(ret)
        /\ Len(ret) = 7 + n + 13 * Len(L)
        /\ ret[1] = 10
        /\ IsLE32(SubSeq(ret, 2, 5), n)
        /\ SubSeq(ret, 6, 5 + n) = utf8(c)
        /\ \A k \in 1..Len(L) :
             LET o == 5 + n + 13 * (k - 1)
             IN  /\ ret[o + 1] = 18
                 /\ IsLE32(SubSeq(ret, o + 2, o + 5), 8)
                 /\ WellFormedIPv4(L[k][1]) =>
                      SubSeq(ret, o + 6, o + 9) = Octets(L[k][1])
                 /\ IsLE32(SubSeq(ret, o + 10, o + 13), L[k][2])
        /\ ret[Len(ret) - 1] = 24
        /\ ret[Len(ret)] = 0

\* an entry of a code with Han characters and two CIDRs, one with a prefix
\* length of four different bytes
C1_Witness ==
  /\ call.fn = "writeGeoIpEntry"
  /\ call.args[1] = <<52, 45, 68, 88, 45, 28779, 26143>>
  /\ call.args[2] = << <<<<49, 57, 50, 46, 49, 54, 56, 46, 49, 46, 48>>, 24>>, <<<<49, 48, 46, 48, 46, 48, 46, 50, 53, 53>>, 16909060>> >>
  /\ Len(ret) = 7 + 11 + 26

\* C2: after a run on an existing input file, the output file is the 4-byte
\* little-endian count N of distinct generated codes followed by exactly N
\* entry encodings, one per distinct code, in first-generated order.
C2_FileLayout ==
  Succeeded =>
    LET gen   == Generated(lines, inputFile)
        codes == FirstSeen(gen)
        out   == fs[outputFile]
    IN  /\ Len(out) >= 4
        /\ IsLE32(SubSeq(out, 1, 4), Cardinality({gen[k] : k \in DOMAIN gen}))
        /\ Len(codes) = Cardinality({gen[k] : k \in DOMAIN gen})
        /\ SubSeq(out, 5, Len(out)) =
             Flatten([k \in 1..Len(codes) |->
                        writeGeoIpEntry(codes[k],
                                        Placeholders(Occurrences(codes[k], gen)))])

\* a finished run in which a code was generated again after another code
\* had been generated for the first time
C2_Witness ==
  /\ Succeeded
  /\ LET gen == Generated(lines, inputFile)
     IN  \E i, j, k \in DOMAIN gen :
           i < j /\ j < k /\ gen[i] = gen[k] /\ gen[i] # gen[j]
                 /\ \A h \in 1..(j - 1) : gen[h] # gen[j]

\* C3: a run whose input path does not exist reports an error and ends
\* without changing any file and without serializing a table.
C3_MissingInputNoWrite ==
  [][(pc = "start" /\ fs[inputFile] = NoFile) =>
       /\ fs' = fs
       /\ pc' = "done"
       /\ stderr' # <<>>
       /\ stdout' = <<>>
       /\ entries' = <<>>]_vars

\* the failed run is over, with the old output file still in place
C3_Witness ==
  /\ pc = "done"
  /\ fs[inputFile] = NoFile
  /\ fs[outputFile] = <<1, 2, 3>>
  /\ stderr # <<>>

\* the short form of the record in cur
ShortForm == <<52, 45>> \o getIspCode(cur.ispDomain) \o <<45>>
               \o getStandardRegionCode(cur.region)

LongForm == ShortForm \o <<45>> \o getCityPinyin(cur.city)

\* C4: the codes of an accepted record are the short form alone when the
\* city name equals the region name or the city field of the line is empty
\* (the city then falls back to the region field), and the short form
\* followed by the long form in every other case; the short form is always
\* first and there are never more than two codes.
C4_Codes ==
  cur.outcome = "added" =>
    LET cityMissing == Fields(lines[idx - 1], inputFile)[3] = <<>>
    IN  /\ Len(cur.countryCodes) \in 1..2
        /\ cur.countryCodes[1] = ShortForm
        /\ (cur.city = cur.region \/ cityMissing) =>
             cur.countryCodes = <<ShortForm>>
        /\ ~(cur.city = cur.region \/ cityMissing) =>
             cur.countryCodes = <<ShortForm, LongForm>>

\* the record of Guangdong, Shenzhen, Unicom has just been processed
C4_Witness ==
  /\ cur.outcome = "added"
  /\ cur.region = <<24191, 19996>>
  /\ cur.city = <<28145, 22323>>
  /\ cur.countryCodes = <<<<52, 45, 76, 84, 45, 71, 68>>, <<52, 45, 76, 84, 45, 71, 68, 45, 115, 104, 101, 110, 122, 104, 101, 110>>>>

\* C5: a line whose country field is not "中国" produces no code and leaves
\* the table as it was, so the table is the one built from the lines whose
\* country field is "中国" alone, and every code in it was generated by
\* such a line.
C5_OnlyChina ==
  pc \in {"scan", "done"} =>
    LET china(line) == Fields(line, inputFile)[1] = <<20013, 22269>>
    IN  /\ (idx > 1 /\ ~china(lines[idx - 1])) => cur.countryCodes = <<>>
        /\ entries = TableOf(SelectSeq(Processed, china), inputFile)
        /\ \A e \in DOMAIN entries :
             \E j \in 1..(idx - 1) :
               /\ china(lines[j])
               /\ \E c \in DOMAIN loopBody(lines[j], inputFile).countryCodes :
                    loopBody(lines[j], inputFile).countryCodes[c]
                      = entries[e].countryCode

\* a well-formed line of another country has been processed after a line
\* that added codes
C5_Witness ==
  /\ pc = "scan"
  /\ idx > 2
  /\ cur.outcome = "foreign"
  /\ cur.country = <<32654, 22269>>
  /\ entries # <<>>

\* C6: a non-blank line with fewer than 4 fields adds nothing and raises no
\* error, and the scan goes on: the table is the one built from the
\* processed lines with at least 4 fields, as if the others were absent.
C6_MalformedSkipped ==
  (pc \in {"scan", "done"} /\ fs[inputFile] # NoFile) =>
    LET wellFormed(line) == ~Malformed(line, inputFile)
    IN  /\ (idx > 1 /\ Malformed(lines[idx - 1], inputFile)) =>
             (cur.outcome = "malformed" /\ cur.countryCodes = <<>>)
        /\ entries = TableOf(SelectSeq(Processed, wellFormed), inputFile)
        /\ stderr = <<>>
        /\ Succeeded =>
             /\ idx = Len(lines) + 1
             /\ fs[outputFile] =
                  fileBuffer(TableOf(SelectSeq(lines, wellFormed), inputFile))

\* a finished run in which a line with 2 or 3 fields came before a line
\* that added codes
C6_Witness ==
  /\ Succeeded
  /\ \E j, k \in DOMAIN lines :
       /\ j < k
       /\ Len(Fields(lines[j], inputFile)) \in 2..3
       /\ loopBody(lines[k], inputFile).outcome = "added"

\* C7 as stated: for an address that is not a well-formed dotted-decimal
\* IPv4 address writeCidr emits the address bytes 00 00 00 00, for a
\* well-formed one its octets; the little-endian prefix length follows.
C7_AsStated ==
  call.fn = "writeCidr" =>
    /\ Len(ret) = 8
    /\ SubSeq(ret, 1, 4) = IF WellFormedIPv4(call.args[1])
                           THEN Octets(call.args[1]) ELSE <<0, 0, 0, 0>>
    /\ IsLE32(SubSeq(ret, 5, 8), call.args[2])

\* the carrier names and their codes
CarrierCode(name) ==
  CASE name = <<30005, 20449>> -> <<68, 88>>
    [] name = <<32852, 36890>> -> <<76, 84>>
    [] name = <<31227, 21160>> -> <<89, 68>>
    [] name = <<38081, 36890>> -> <<84, 84>>
    [] name = <<21326, 25968>> -> <<72, 83>>
    [] name = <<26410, 30693>> -> <<85, 78>>
    [] OTHER -> <<85, 78>>

\* C8 as stated: getIspCode returns the code of the carrier that the first
\* two characters (or the single character) of the name spell, and "UN"
\* otherwise; it never returns a region code.
C8_AsStated ==
  call.fn = "getIspCode" =>
    ret = CarrierCode(substring(call.args[1], 2))

\* C9: every code of the table has at least one CIDR; a code generated
\* several times is one key whose list holds one CIDR per generation.
C9_NonEmptyMerged ==
  LET gen == Generated(Processed, inputFile)
  IN  /\ \A k \in DOMAIN entries :
           /\ Len(entries[k].cidrs) >= 1
           /\ Len(entries[k].cidrs) = Occurrences(entries[k].countryCode, gen)
      /\ \A j, k \in DOMAIN entries :
           entries[j].countryCode = entries[k].countryCode => j = k

\* a code generated by two lines holds two CIDRs in the table handed to the
\* encoder
C9_Witness ==
  /\ Succeeded
  /\ \E k \in DOMAIN entries : Len(entries[k].cidrs) >= 2
  /\ Len(entries) >= 2

CleanRecord(rec) ==
  \A f \in 1..4 :
    /\ rec[f] # <<>>
    /\ \A k \in 1..Len(rec[f]) : rec[f][k] \notin WhiteSpace \cup {124}

====
